---- MODULE Spec2Model ----
(***************************************************************************)
(* A model of the servicenow.itsm request modules: request_item (create,   *)
(* update, delete of sc_req_item records), the three info modules          *)
(* (request_item_info, request_info, request_task_info), the catalog       *)
(* variable join of VariableClient.list and the query remapping of         *)
(* remap_params.                                                           *)
(*                                                                         *)
(* Python values are modelled as follows: a dict is a function from its    *)
(* keys (strings) to values, a list is a sequence, None is the string      *)
(* None (for a string-valued slot) or the record NoneRec (for a dict-      *)
(* valued slot).  A ServiceNow `order` value is a sequence of one-character *)
(* strings, so that int() is computed from its digits.                     *)
(***************************************************************************)
EXTENDS Integers, Sequences, FiniteSets, TLC

VARIABLES
    sc_req_item,          \* remote table sc_req_item: rows
    attached,             \* remote attachments: table_sys_id -> set of attachment names
    sc_item_option_mtom,  \* remote table sc_item_option_mtom: rows
    module,               \* the AnsibleModule of the last invocation: params, check_mode
    invoked,              \* which module's main() ran last ("none" before any)
    outcome,              \* how the last invocation ended
    calls,                \* the table/attachment client calls the last invocation issued
    runs,                 \* number of invocations so far
    pre,                  \* the remote (rows, attached) as the last invocation found it
    query_load            \* the last result of remap_params

vars == <<sc_req_item, attached, sc_item_option_mtom, module, invoked, outcome,
          calls, runs, pre, query_load>>

\* ---------------------------------------------------------------- bounds

MaxRuns == 2
MaxVars == 3
MaxItems == 2
MaxConds == 2

\* ------------------------------------------------------- Python values

None == "None"
NoneRec == [None |-> "None"]
EmptyDict == [k \in {} |-> None]

Truthy(v) == v \notin {None, ""}

\* dict.get(k, default)
Get(d, k, default) == IF k \in DOMAIN d THEN d[k] ELSE default

\* dict(d, **e) / d.update(e): the keys of e win
Update(d, e) == [k \in DOMAIN d \cup DOMAIN e |-> IF k \in DOMAIN e THEN e[k] ELSE d[k]]

\* ------------------------------------------------- results of a call
\* A call either returns (exc = "") or raises exc with message msg; st is
\* the state of the remote and of the call log after it.

\* A message is the pair of a format string and the text formatted into it.
Msg(template, argument) == <<template, argument>>
NoMsg == Msg("", "")

Ok(ret, st) == [exc |-> "", msg |-> NoMsg, ret |-> ret, st |-> st]
Raise(exc, msg, st) == [exc |-> exc, msg |-> msg, ret |-> None, st |-> st]
Called(st, name, table) == [st EXCEPT !.calls = Append(@, <<name, table>>)]

\* --------------------------------------------------------- utils.py

\* utils.filter_dict(input, *field_names): the named keys that are set
filter_dict(input, field_names) ==
    [k \in {f \in field_names : f \in DOMAIN input /\ input[f] # None} |-> input[k]]

\* utils.is_superset(superset, candidate)
is_superset(superset, candidate) ==
    \A k \in DOMAIN candidate : k \in DOMAIN superset /\ superset[k] = candidate[k]

\* ------------------------------------------ module_utils/request_item.py

PAYLOAD_FIELDS_MAPPING ==
    [priority |-> << <<"1", "critical">>, <<"2", "high">>, <<"3", "moderate">>, <<"4", "low">> >>,
     impact   |-> << <<"1", "high">>, <<"2", "medium">>, <<"3", "low">> >>,
     urgency  |-> << <<"1", "high">>, <<"2", "medium">>, <<"3", "low">> >>,
     state    |-> << <<"-5", "Pending">>, <<"1", "Open">>, <<"2", "Work In Progress">>,
                     <<"3", "Closed Complete">>, <<"4", "Closed Incomplete">>,
                     <<"7", "Closed Skipped">> >>]

\* utils.get_mapper(...).to_ansible / to_snow on one value: the pair of the
\* field's mapping whose `from` side is v gives the `to` side; a value (or a
\* field) the mapping does not list passes through unchanged.
map_value(field, v, from, to) ==
    IF field \in DOMAIN PAYLOAD_FIELDS_MAPPING
       /\ \E i \in DOMAIN PAYLOAD_FIELDS_MAPPING[field] : PAYLOAD_FIELDS_MAPPING[field][i][from] = v
    THEN LET i == CHOOSE j \in DOMAIN PAYLOAD_FIELDS_MAPPING[field] :
                      PAYLOAD_FIELDS_MAPPING[field][j][from] = v
         IN PAYLOAD_FIELDS_MAPPING[field][i][to]
    ELSE v

to_ansible(record) == [k \in DOMAIN record |-> map_value(k, record[k], 1, 2)]
to_snow(record) == [k \in DOMAIN record |-> map_value(k, record[k], 2, 1)]

\* ------------------------------------------------ the remote instance
\* Rows of the tables the modules only read.  sc_req_item, the attachments
\* and sc_item_option_mtom are variables; the rest is fixed data.

sys_user_group == << [sys_id |-> "g1", name |-> "grp"] >>
sys_user == << [sys_id |-> "u1", user_name |-> "some.user"] >>
std_change_producer_version == << [sys_id |-> "t1", name |-> "tmpl"] >>

sc_request == << [sys_id |-> "r1", number |-> "REQ1", state |-> "1", assignment_group |-> "g1"] >>
sc_task == << [sys_id |-> "k1", number |-> "SCTASK1", state |-> "1", assignment_group |-> "g1"],
              [sys_id |-> "id1", number |-> "SCTASK2", state |-> "3", assignment_group |-> ""] >>

\* sc_item_option: the answers.  o1 has order "10", o2 and o3 both have order
\* "9", o4 has the empty order, o5 refers to a question that does not exist.
sc_item_option ==
    << [sys_id |-> "o1", item_option_new |-> "q1", order |-> <<"1", "0">>, value |-> "oracle"],
       [sys_id |-> "o2", item_option_new |-> "q2", order |-> <<"9">>, value |-> "true"],
       [sys_id |-> "o3", item_option_new |-> "q3", order |-> <<"9">>, value |-> "2022-06-08"],
       [sys_id |-> "o4", item_option_new |-> "q1", order |-> << >>, value |-> ""],
       [sys_id |-> "o5", item_option_new |-> "q9", order |-> <<"2">>, value |-> "x"] >>

\* item_option_new: the questions.
item_option_new ==
    << [sys_id |-> "q1", name |-> "db", type |-> "6", active |-> "true", mandatory |-> "true",
        read_only |-> "false", question_text |-> "Database", description |-> "db name"],
       [sys_id |-> "q2", name |-> "ha", type |-> "1", active |-> "true", mandatory |-> "false",
        read_only |-> "false", question_text |-> "High availability", description |-> ""],
       [sys_id |-> "q3", name |-> "due", type |-> "13", active |-> "false", mandatory |-> "false",
        read_only |-> "true", question_text |-> "Due date", description |-> "when"] >>

\* The remote's answer to a sysparm_query: the rows that satisfy every
\* condition of at least one item (items are joined by ^NQ, conditions by ^).
CondHolds(row, c) ==
    LET v == Get(row, c[1], "")
    IN CASE c[2] = "="  -> v = c[3]
         [] c[2] = "!=" -> v # c[3]
         [] OTHER       -> FALSE

SysparmMatches(row, q) ==
    \E i \in DOMAIN q : \A j \in DOMAIN q[i] : CondHolds(row, q[i][j])

\* ------------------------------------------------------------ table.py

TableRows(st, table) ==
    CASE table = "sc_req_item"                 -> st.rows
      [] table = "sc_request"                  -> sc_request
      [] table = "sc_task"                     -> sc_task
      [] table = "sc_item_option_mtom"         -> sc_item_option_mtom
      [] table = "sc_item_option"              -> sc_item_option
      [] table = "item_option_new"             -> item_option_new
      [] table = "sys_user_group"              -> sys_user_group
      [] table = "sys_user"                    -> sys_user
      [] table = "std_change_producer_version" -> std_change_producer_version

\* TableClient.list_records(table, query): one client call
list_records(st, table, query) ==
    LET rows == TableRows(st, table)
        hit(row) == IF "sysparm_query" \in DOMAIN query
                    THEN SysparmMatches(row, query.sysparm_query)
                    ELSE \A k \in DOMAIN query : k \in DOMAIN row /\ row[k] = query[k]
    IN Ok(SelectSeq(rows, hit), Called(st, "list_records", table))

\* TableClient.get_record(table, query, must_exist): one client call;
\* returns the row, or NoneRec when nothing matches and must_exist is False.
\* `hits` are the rows list_records finds, st1 the state after the call.
get_record_result(hits, must_exist, st1) ==
    IF Len(hits) > 1 THEN Raise("ServiceNowError", Msg("{0} {1} records match the {2} query.", ""), st1)
    ELSE IF Len(hits) = 0
         THEN IF must_exist THEN Raise("ServiceNowError", Msg("No {0} records match the {1} query.", ""), st1)
              ELSE Ok(NoneRec, st1)
         ELSE Ok(hits[1], st1)

get_record(st, table, query, must_exist) ==
    get_record_result(
        SelectSeq(TableRows(st, table),
                  LAMBDA row : \A k \in DOMAIN query : k \in DOMAIN row /\ row[k] = query[k]),
        must_exist, Called(st, "get_record", table))

\* A fresh sys_id and number for a created row.
NewSysId(rows) == CHOOSE id \in {"id2", "id3", "id4", "id5"} : \A i \in DOMAIN rows : rows[i].sys_id # id
NewNumber(id) == CASE id = "id2" -> "RITM2" [] id = "id3" -> "RITM3"
                   [] id = "id4" -> "RITM4" [] OTHER -> "RITM5"

RecFields == {"sys_id", "number", "state", "assignment_group", "priority", "impact",
              "urgency", "short_description", "description", "close_notes"}

\* TableClient.create_record(table, payload, check_mode): one client call.
\* In check mode nothing is sent and the payload is returned; otherwise the
\* remote stores a new row (unset fields empty) and returns it.
create_record(st, table, payload, check_mode) ==
    LET st1 == Called(st, "create_record", table)
        id == NewSysId(st.rows)
        row == Update([k \in RecFields |-> ""],
                      Update(payload, [sys_id |-> id, number |-> NewNumber(id)]))
    IN IF check_mode THEN Ok(payload, st1)
       ELSE Ok(row, [st1 EXCEPT !.rows = Append(@, row)])

\* TableClient.update_record(table, record, payload, check_mode): one client
\* call.  In check mode the result is dict(record, **payload); otherwise the
\* remote patches the row with record's sys_id and returns it.
update_record(st, table, record, payload, check_mode) ==
    LET st1 == Called(st, "update_record", table)
        i == CHOOSE j \in DOMAIN st.rows : st.rows[j].sys_id = record.sys_id
        row == Update(st.rows[i], payload)
    IN IF check_mode THEN Ok(Update(record, payload), st1)
       ELSE Ok(row, [st1 EXCEPT !.rows[i] = row])

\* TableClient.delete_record(table, record, check_mode): one client call
delete_record(st, table, record, check_mode) ==
    LET st1 == Called(st, "delete_record", table)
    IN IF check_mode THEN Ok(None, st1)
       ELSE Ok(None, [st1 EXCEPT !.rows = SelectSeq(@, LAMBDA row : row.sys_id # record.sys_id)])

\* table.find_assignment_group(table_client, name)
find_assignment_group(st, name) == get_record(st, "sys_user_group", [name |-> name], TRUE)
\* table.find_user(table_client, user_name)
find_user(st, name) == get_record(st, "sys_user", [user_name |-> name], TRUE)
\* table.find_standard_change_template(table_client, name)
find_standard_change_template(st, name) ==
    get_record(st, "std_change_producer_version", [name |-> name], TRUE)

\* -------------------------------------------------------- attachment.py
\* Attachments are identified by name; a list of attachment records is
\* modelled as the set of their names.

AttachedTo(st, sys_id) == Get(st.attached, sys_id, {})

\* attachment.transform_metadata_list(params["attachments"], sha256); an
\* unset attachments parameter and the empty list both give no metadata and
\* are both modelled as {}
transform_metadata_list(attachments) == attachments

\* attachment.are_changed(records, metadata): the requested attachments
\* that are not attached as they are
are_changed(records, metadata) == metadata \ records

\* AttachmentClient.list_records(query): one client call
attachment_list_records(st, sys_id) ==
    Ok(AttachedTo(st, sys_id), Called(st, "attachment.list_records", "attachment"))

\* AttachmentClient.upload_records(table, table_sys_id, metadata, check_mode)
upload_records(st, sys_id, metadata, check_mode) ==
    LET st1 == Called(st, "attachment.upload_records", "attachment")
    IN IF check_mode THEN Ok(metadata, st1)
       ELSE Ok(metadata,
               [st1 EXCEPT !.attached = Update(@, (sys_id :> (AttachedTo(st, sys_id) \cup metadata)))])

\* AttachmentClient.update_records(table, table_sys_id, metadata, records, check_mode)
update_records(st, sys_id, metadata, records, check_mode) ==
    LET st1 == Called(st, "attachment.update_records", "attachment")
    IN IF check_mode THEN Ok(records \cup metadata, st1)
       ELSE Ok(records \cup metadata,
               [st1 EXCEPT !.attached = Update(@, (sys_id :> (records \cup metadata)))])

\* AttachmentClient.delete_attached_records(table, table_sys_id, check_mode)
delete_attached_records(st, sys_id, check_mode) ==
    LET st1 == Called(st, "attachment.delete_attached_records", "attachment")
    IN IF check_mode THEN Ok(None, st1)
       ELSE Ok(None, [st1 EXCEPT !.attached = Update(@, (sys_id :> {}))])

\* ---------------------------------------------------------- variable.py

\* Python's int() on a string of characters: an optional sign followed by
\* at least one decimal digit; anything else raises ValueError.
DigitValue(c) ==
    CASE c = "0" -> 0 [] c = "1" -> 1 [] c = "2" -> 2 [] c = "3" -> 3 [] c = "4" -> 4
      [] c = "5" -> 5 [] c = "6" -> 6 [] c = "7" -> 7 [] c = "8" -> 8 [] c = "9" -> 9
      [] OTHER -> -1

IsDigits(s) == Len(s) > 0 /\ \A i \in DOMAIN s : DigitValue(s[i]) >= 0

IsIntStr(s) ==
    IF Len(s) > 0 /\ s[1] \in {"-", "+"} THEN IsDigits(Tail(s)) ELSE IsDigits(s)

RECURSIVE DigitsToNat(_)
DigitsToNat(s) ==
    IF Len(s) = 0 THEN 0
    ELSE 10 * DigitsToNat(SubSeq(s, 1, Len(s) - 1)) + DigitValue(s[Len(s)])

int(s) ==
    IF s[1] = "-" THEN 0 - DigitsToNat(Tail(s))
    ELSE IF s[1] = "+" THEN DigitsToNat(Tail(s))
    ELSE DigitsToNat(s)

\* def by_order_full(ele): int(ele['value']['order'])
by_order_full(ele) == int(ele.value.order)

\* def by_order_simple(ele): int(ele['order'])
by_order_simple_lex(ele) == DigitValue(ele.order[1])
by_order_simple(ele) == int(ele.order)

\* list.sort(key=...): the keys are computed first, then the list is sorted
\* stably in non-decreasing key order.  `keyed` is the list of <<key, element>>.
RECURSIVE InsertStable(_, _)
InsertStable(sorted, p) ==
    IF Len(sorted) = 0 THEN <<p>>
    ELSE IF sorted[Len(sorted)][1] <= p[1] THEN Append(sorted, p)
    ELSE Append(InsertStable(SubSeq(sorted, 1, Len(sorted) - 1), p), sorted[Len(sorted)])

RECURSIVE SortStable(_)
SortStable(keyed) ==
    IF Len(keyed) = 0 THEN << >>
    ELSE InsertStable(SortStable(SubSeq(keyed, 1, Len(keyed) - 1)), keyed[Len(keyed)])

Undecorate(keyed) == [i \in DOMAIN keyed |-> keyed[i][2]]

\* var_type: the type-code table, in the order of the source
var_type ==
    << <<"", "">>, <<"1", "Yes/No">>, <<"2", "Multi_Line_Text">>, <<"3", "Multiple_Choice">>,
       <<"4", "Numeric_cale">>, <<"5", "Select_Box">>, <<"6", "Single_Line_Text">>,
       <<"7", "CheckBox">>, <<"8", "Reference">>, <<"9", "Date">>, <<"10", "Date/Time">>,
       <<"11", "Label">>, <<"12", "Break">>, <<"14", "Custom">>, <<"15", "UI_Page">>,
       <<"16", "Wide Single Line Text">>, <<"17", "Custom_with_Label">>,
       <<"18", "Lookup_Select_Box">>, <<"19", "Container Start">>, <<"20", "Container End">>,
       <<"21", "List_Collector">>, <<"22", "Lookup_Multiple_Choice">>, <<"23", "HTML">>,
       <<"24", "Container Split">>, <<"25", "Masked">>, <<"26", "Email">>, <<"27", "URL">>,
       <<"28", "IP_Address">>, <<"29", "Duration">>, <<"30", "Time">>,
       <<"31", "Requested_For">>, <<"32", "Rich_Text_Label">>, <<"33", "Attachment">> >>

\* map_type without its else branch: an unlisted code falls off the end of
\* the function, which returns None.
map_type_no_else(type_) ==
    IF \E i \in DOMAIN var_type : var_type[i][1] = type_
    THEN var_type[CHOOSE j \in DOMAIN var_type : var_type[j][1] = type_][2]
    ELSE None

\* def map_type(type_): the label of the first entry with that code
map_type(type_) ==
    IF \E i \in DOMAIN var_type : var_type[i][1] = type_
    THEN LET i == CHOOSE j \in DOMAIN var_type :
                      /\ var_type[j][1] = type_
                      /\ \A k \in 1..(j - 1) : var_type[k][1] # type_
         IN var_type[i][2]
    ELSE "unknown"

\* The dict appended to vars for one joined row (name: the item_option_new
\* row, value: the sc_item_option row).
vars_entry_swapped(name, value) ==
    [order |-> value.order, active |-> name.active, name |-> name.name,
     type |-> map_type(name.type), mandatory |-> name.mandatory,
     read_only |-> name.read_only, question_text |-> name.description,
     description |-> name.question_text, value |-> value.value]
vars_entry(name, value) ==
    [order |-> value.order, active |-> name.active, name |-> name.name,
     type |-> map_type(name.type), mandatory |-> name.mandatory,
     read_only |-> name.read_only, question_text |-> name.question_text,
     description |-> name.description, value |-> value.value]

\* The dict appended to vars_full for one joined row.
vars_full_entry(name, value) == [name |-> name, value |-> value]

\* The for loop of VariableClient.list over the mtom rows: two get_record
\* calls per row.  Subscripting the None that get_record returns when no row
\* matches raises TypeError.  list_loop is the loop head, list_loop_value
\* continues with the sc_item_option row, list_loop_name with the
\* item_option_new row.
RECURSIVE list_loop(_, _, _, _)
RECURSIVE list_loop_value(_, _, _, _)
RECURSIVE list_loop_name(_, _, _, _, _)
list_loop(st, rows, vars_, vars_full) ==
    IF Len(rows) = 0 THEN Ok([vars |-> vars_, vars_full |-> vars_full], st)
    ELSE list_loop_value(rows, vars_, vars_full,
                         get_record(st, "sc_item_option",
                                    [sys_id |-> rows[1].sc_item_option], FALSE))

list_loop_value(rows, vars_, vars_full, value) ==
    IF value.exc # "" THEN value
    ELSE IF value.ret = NoneRec
    THEN Raise("TypeError", Msg("'NoneType' object is not subscriptable", ""), value.st)
    ELSE list_loop_name(rows, vars_, vars_full, value.ret,
                        get_record(value.st, "item_option_new",
                                   [sys_id |-> value.ret.item_option_new], FALSE))

list_loop_name(rows, vars_, vars_full, value, name) ==
    IF name.exc # "" THEN name
    ELSE IF name.ret = NoneRec
    THEN Raise("TypeError", Msg("'NoneType' object is not subscriptable", ""), name.st)
    ELSE list_loop(name.st, Tail(rows),
                   Append(vars_, vars_entry(name.ret, value)),
                   Append(vars_full, vars_full_entry(name.ret, value)))

\* vars_full.sort(key=by_order_full)
sort_vars_full(vars_full) ==
    Undecorate(SortStable([i \in DOMAIN vars_full |-> <<by_order_full(vars_full[i]), vars_full[i]>>]))

\* vars.sort(key=by_order_simple)
sort_vars(vars_) ==
    Undecorate(SortStable([i \in DOMAIN vars_ |-> <<by_order_simple(vars_[i]), vars_[i]>>]))

\* The two sorts and the return of VariableClient.list; int() raises
\* ValueError on an order that is no integer literal.
variable_list_sort(loop) ==
    IF loop.exc # "" THEN loop
    ELSE IF \E i \in DOMAIN loop.ret.vars_full : ~IsIntStr(loop.ret.vars_full[i].value.order)
    THEN Raise("ValueError", Msg("invalid literal for int() with base 10: {0}", ""), loop.st)
    ELSE IF \E i \in DOMAIN loop.ret.vars : ~IsIntStr(loop.ret.vars[i].order)
    THEN Raise("ValueError", Msg("invalid literal for int() with base 10: {0}", ""), loop.st)
    ELSE Ok([variables |-> sort_vars_full(loop.ret.vars_full),
             vars |-> sort_vars(loop.ret.vars)], loop.st)

variable_list_loop(listed) == list_loop(listed.st, listed.ret, << >>, << >>)

\* VariableClient.list(sys_id)
variable_list(st, sys_id) ==
    variable_list_sort(variable_list_loop(
        list_records(st, "sc_item_option_mtom", [request_item |-> sys_id])))

\* -------------------------------------------------------- validation.py

\* validation.missing_from_params_and_remote(params, module_params, record):
\* each element of its first argument that is unset in the module
\* parameters and unset (or empty) in the remote record
missing_from_params_and_remote(names, module_params, record) ==
    SelectSeq(names, LAMBDA p : /\ Get(module_params, p, None) = None
                                /\ (record = NoneRec \/ ~Truthy(Get(record, p, ""))))

\* ", ".join(missing)
RECURSIVE Join(_)
Join(strs) ==
    IF Len(strs) = 0 THEN ""
    ELSE IF Len(strs) = 1 THEN strs[1]
    ELSE strs[1] \o ", " \o Join(Tail(strs))

\* ------------------------------------------------ modules/request_item.py

DIRECT_PAYLOAD_FIELDS ==
    {"state", "assignment_group", "priority", "impact", "short_description",
     "description", "close_notes"}

\* The first argument validate_params hands to missing_from_params_and_remote
\* is ("close_notes"): a parenthesised str, not a 1-tuple, so iterating it
\* yields its characters.
close_notes_argument == <<"c", "l", "o", "s", "e", "_", "n", "o", "t", "e", "s">>

\* def validate_params(params, change_request=None)
validate_params_raise(missing) ==
    IF Len(missing) > 0
    THEN [exc |-> "ServiceNowError", msg |-> Msg("Missing required parameters {0}", Join(missing))]
    ELSE [exc |-> "", msg |-> NoMsg]

validate_params(params, change_request) ==
    validate_params_raise(
        IF params.state = "closed"
        THEN missing_from_params_and_remote(close_notes_argument, params, change_request)
        ELSE << >>)

\* def build_payload(module, table_client)
build_payload_group(payload, assignment_group) ==
    IF assignment_group.exc # "" THEN assignment_group
    ELSE Ok(Update(payload, [assignment_group |-> assignment_group.ret.sys_id]),
            assignment_group.st)

build_payload_other(other) == IF other = NoneRec THEN EmptyDict ELSE other

build_payload_direct(mod) ==
    Update(build_payload_other(mod.params.other), filter_dict(mod.params, DIRECT_PAYLOAD_FIELDS))

build_payload(mod, st) ==
    IF Truthy(mod.params.assignment_group)
    THEN build_payload_group(build_payload_direct(mod),
                             find_assignment_group(st, mod.params.assignment_group))
    ELSE Ok(build_payload_direct(mod), st)

\* def ensure_absent(module, table_client, attachment_client, variable_client)
ensure_absent_parameters == <<"module", "table_client", "attachment_client", "variable_client">>

ensure_absent_deleted(change, rec) ==
    Ok([changed |-> TRUE, record |-> NoneRec,
        diff |-> [before |-> to_ansible(change), after |-> NoneRec]], rec.st)

ensure_absent_attachments(mod, change, del) ==
    ensure_absent_deleted(change, delete_record(del.st, "sc_req_item", change, mod.check_mode))

ensure_absent_change(mod, change) ==
    IF change.exc # "" THEN change
    ELSE IF change.ret # NoneRec
    THEN ensure_absent_attachments(
             mod, change.ret,
             delete_attached_records(change.st, change.ret.sys_id, mod.check_mode))
    ELSE Ok([changed |-> FALSE, record |-> NoneRec,
             diff |-> [before |-> NoneRec, after |-> NoneRec]], change.st)

ensure_absent(mod, st) ==
    ensure_absent_change(
        mod, get_record(st, "sc_req_item", filter_dict(mod.params, {"sys_id", "number"}), FALSE))

\* ensure_present, the branch `if not query`: create a new record
ensure_present_new(new, uploaded) ==
    Ok([changed |-> TRUE,
        record |-> Update(new, [attachments |-> uploaded.ret]),
        diff |-> [before |-> NoneRec, after |-> Update(new, [attachments |-> uploaded.ret])]],
       uploaded.st)

ensure_present_created(mod, st, new) ==
    ensure_present_new(
        new, upload_records(st, Get(new, "sys_id", "N/A"),
                            transform_metadata_list(mod.params.attachments), mod.check_mode))

ensure_present_create_record(mod, created) ==
    ensure_present_created(mod, created.st, to_ansible(created.ret))

ensure_present_create_valid(mod, st, payload, valid) ==
    IF valid.exc # "" THEN Raise(valid.exc, valid.msg, st)
    ELSE ensure_present_create_record(
             mod, create_record(st, "sc_req_item", to_snow(payload), mod.check_mode))

ensure_present_create(mod, st, payload) ==
    ensure_present_create_valid(mod, st, payload, validate_params(mod.params, NoneRec))

\* ensure_present, after old, its attachments and its variables were read
ensure_present_changed(old, variables, new, upd) ==
    Ok([changed |-> TRUE,
        record |-> Update(new, [attachments |-> upd.ret, variables |-> variables.variables,
                                vars |-> variables.vars]),
        diff |-> [before |-> old,
                  after |-> Update(new, [attachments |-> upd.ret,
                                         variables |-> variables.variables,
                                         vars |-> variables.vars])]],
       upd.st)

ensure_present_updated(mod, old, variables, updated) ==
    ensure_present_changed(
        old, variables, to_ansible(updated.ret),
        update_records(updated.st, old.sys_id, transform_metadata_list(mod.params.attachments),
                       old.attachments, mod.check_mode))

ensure_present_update_valid(mod, st, payload, old, variables, valid) ==
    IF valid.exc # "" THEN Raise(valid.exc, valid.msg, st)
    ELSE ensure_present_updated(
             mod, old, variables,
             update_record(st, "sc_req_item", to_snow(old), to_snow(payload), mod.check_mode))

\* ensure_present without the is_superset / are_changed test: every run
\* on an existing record updates it.
ensure_present_update_always(mod, st, payload, old, variables) ==
    ensure_present_update_valid(mod, st, payload, old, variables,
                                validate_params(mod.params, old))

ensure_present_update(mod, st, payload, old, variables) ==
    IF /\ is_superset(old, payload)
       /\ are_changed(old.attachments, transform_metadata_list(mod.params.attachments)) = {}
    THEN Ok([changed |-> FALSE, record |-> old, diff |-> [before |-> old, after |-> old]], st)
    ELSE ensure_present_update_valid(mod, st, payload, old, variables,
                                     validate_params(mod.params, old))

ensure_present_variables(mod, payload, rec, old_attachments, variables) ==
    IF variables.exc # "" THEN variables
    ELSE ensure_present_update(
             mod, variables.st, payload,
             Update(to_ansible(rec), [attachments |-> old_attachments,
                                      variables |-> variables.ret.variables,
                                      vars |-> variables.ret.vars]),
             variables.ret)

ensure_present_listed(mod, payload, rec, listed) ==
    ensure_present_variables(mod, payload, rec, listed.ret, variable_list(listed.st, rec.sys_id))

ensure_present_got(mod, payload, got) ==
    IF got.exc # "" THEN got
    ELSE ensure_present_listed(mod, payload, got.ret,
                               attachment_list_records(got.st, got.ret.sys_id))

\* ensure_present as an upsert: a sys_id / number that matches no record
\* creates one.
ensure_present_built_upsert(mod, query, built) ==
    IF built.exc # "" THEN built
    ELSE IF \/ DOMAIN query = {}
            \/ get_record(built.st, "sc_req_item", query, FALSE).ret = NoneRec
    THEN ensure_present_create(mod, built.st, built.ret)
    ELSE ensure_present_got(mod, built.ret, get_record(built.st, "sc_req_item", query, TRUE))

ensure_present_built(mod, query, built) ==
    IF built.exc # "" THEN built
    ELSE IF DOMAIN query = {}
    THEN ensure_present_create(mod, built.st, built.ret)
    ELSE ensure_present_got(mod, built.ret, get_record(built.st, "sc_req_item", query, TRUE))

\* def ensure_present(module, table_client, attachment_client, variable_client)
ensure_present(mod, st) ==
    ensure_present_built(mod, filter_dict(mod.params, {"sys_id", "number"}),
                         build_payload(mod, st))

\* The arguments run() passes to ensure_absent.  A Python call whose
\* positional arguments do not fill the callee's parameters raises TypeError
\* before the callee's body runs.
run_ensure_absent_arguments == <<"module", "table_client", "attachment_client">>

\* def run(module, table_client, attachment_client, variable_client)
request_item_run(mod, st) ==
    IF mod.params.state = "absent"
    THEN IF Len(run_ensure_absent_arguments) # Len(ensure_absent_parameters)
         THEN Raise("TypeError", Msg("ensure_absent() missing 1 required positional argument: {0}",
                          "variable_client"), st)
         ELSE ensure_absent(mod, st)
    ELSE ensure_present(mod, st)

\* The ways an invocation ends.
ExitJson(changed, record, diff, records) ==
    [kind |-> "exit_json", changed |-> changed, record |-> record, diff |-> diff,
     records |-> records, msg |-> NoMsg, exc |-> ""]
FailJson(msg) ==
    [kind |-> "fail_json", changed |-> FALSE, record |-> NoneRec,
     diff |-> [before |-> NoneRec, after |-> NoneRec], records |-> << >>, msg |-> msg, exc |-> ""]
Uncaught(exc, msg) ==
    [kind |-> "exception", changed |-> FALSE, record |-> NoneRec,
     diff |-> [before |-> NoneRec, after |-> NoneRec], records |-> << >>, msg |-> msg, exc |-> exc]
NoOutcome ==
    [kind |-> "none", changed |-> FALSE, record |-> NoneRec,
     diff |-> [before |-> NoneRec, after |-> NoneRec], records |-> << >>, msg |-> NoMsg, exc |-> ""]

\* AnsibleModule(required_if=[("state", "absent", ("sys_id", "number"), True)])
required_if_ok(mod) ==
    ~(mod.params.state = "absent" /\ mod.params.sys_id = None /\ mod.params.number = None)

\* def main() of request_item: AnsibleModule checks required_if, then run()
\* inside try / except errors.ServiceNowError.  `res` is what run() did.
request_item_outcome(mod, res) ==
    IF ~required_if_ok(mod)
    THEN FailJson(Msg("state is absent but any of the following are missing: {0}", "sys_id, number"))
    ELSE IF res.exc = "" THEN ExitJson(res.ret.changed, res.ret.record, res.ret.diff, << >>)
    ELSE IF res.exc = "ServiceNowError" THEN FailJson(res.msg)
    ELSE Uncaught(res.exc, res.msg)

\* ------------------------------------------------------------ query.py
\* A query item is an insertion-ordered dict: a sequence of <<column, cond>>
\* with distinct columns, cond being the pair <<operator, value>>.

QueryOperators == {"=", "!=", "LIKE"}

\* q[k] = v on an insertion-ordered dict: an existing key keeps its place
DictSet(q, k, v) ==
    IF \E i \in DOMAIN q : q[i][1] = k
    THEN [i \in DOMAIN q |-> IF q[i][1] = k THEN <<k, v>> ELSE q[i]]
    ELSE Append(q, <<k, v>>)

DictKeys(q) == {q[i][1] : i \in DOMAIN q}
DictGet(q, k) == q[CHOOSE i \in DOMAIN q : q[i][1] = k][2]

\* query.parse_query(query): (parsed, err); err when a condition's operator
\* is not a query operator
parse_query_err(query) ==
    \E i \in DOMAIN query : \E j \in DOMAIN query[i] : query[i][j][2][1] \notin QueryOperators

\* query.map_query_values(query, mapper): the value of every condition
\* translated by mapper.to_snow
map_query_values(query) ==
    [i \in DOMAIN query |->
        [j \in DOMAIN query[i] |->
            <<query[i][j][1],
              <<query[i][j][2][1], map_value(query[i][j][1], query[i][j][2][2], 2, 1)>> >>]]

\* query.serialize_query(query): conditions column+operator+value joined by
\* ^, items joined by ^NQ; kept as the sequence of items, each the sequence
\* of its <<column, operator, value>>
serialize_query(query) ==
    [i \in DOMAIN query |->
        [j \in DOMAIN query[i] |-> <<query[i][j][1], query[i][j][2][1], query[i][j][2][2]>>]]

\* ------------------------------- modules/request_*_info.py: remap_params

RECURSIVE remap_item(_, _, _)
RECURSIVE remap_lookup(_, _, _, _, _)
RECURSIVE remap_cond(_, _, _, _, _)

\* the body of `for k, v in item.items()` with the template branch storing
\* under the key it read
remap_cond_template_key(st, rest, q, k, v) ==
    CASE k = "type" -> remap_item(st, rest, DictSet(q, "chg_model", <<v[1], v[2]>>))
      [] k = "hold_reason" -> remap_item(st, rest, DictSet(q, "on_hold_reason", <<v[1], v[2]>>))
      [] k = "requested_by" -> remap_lookup(rest, q, "requested_by", v[1], find_user(st, v[2]))
      [] k = "assignment_group" ->
            remap_lookup(rest, q, "assignment_group", v[1], find_assignment_group(st, v[2]))
      [] k = "template" ->
            remap_lookup(rest, q, "template", v[1], find_standard_change_template(st, v[2]))
      [] OTHER -> remap_item(st, rest, DictSet(q, k, v))

\* the body of `for k, v in item.items()`
remap_cond(st, rest, q, k, v) ==
    CASE k = "type" -> remap_item(st, rest, DictSet(q, "chg_model", <<v[1], v[2]>>))
      [] k = "hold_reason" -> remap_item(st, rest, DictSet(q, "on_hold_reason", <<v[1], v[2]>>))
      [] k = "requested_by" -> remap_lookup(rest, q, "requested_by", v[1], find_user(st, v[2]))
      [] k = "assignment_group" ->
            remap_lookup(rest, q, "assignment_group", v[1], find_assignment_group(st, v[2]))
      [] k = "template" ->
            remap_lookup(rest, q, "std_change_producer_version", v[1],
                         find_standard_change_template(st, v[2]))
      [] OTHER -> remap_item(st, rest, DictSet(q, k, v))

\* q[key] = (v[0], <looked-up record>["sys_id"]); a failed lookup raises
remap_lookup(rest, q, key, operator, found) ==
    IF found.exc # "" THEN found
    ELSE remap_item(found.st, rest, DictSet(q, key, <<operator, found.ret.sys_id>>))

\* `for k, v in item.items()` over the conditions left of one item
remap_item(st, item, q) ==
    IF Len(item) = 0 THEN Ok(q, st)
    ELSE remap_cond(st, Tail(item), q, item[1][1], item[1][2])

RECURSIVE remap_items(_, _, _)
remap_items_next(rest, load, q) ==
    IF q.exc # "" THEN q
    ELSE remap_items(q.st, rest, Append(load, q.ret))

\* `for item in query` of remap_params; `load` is the local query_load
remap_items(st, query, load) ==
    IF Len(query) = 0 THEN Ok(load, [st EXCEPT !.query_load = load])
    ELSE remap_items_next(Tail(query), load, remap_item(st, query[1], << >>))

\* def remap_params(query, table_client)
remap_params(st, query) == remap_items(st, query, << >>)

\* def sysparms_query(module, table_client, mapper)
sysparms_query_remapped(remap_query) ==
    IF remap_query.exc # "" THEN remap_query
    ELSE Ok(serialize_query(map_query_values(remap_query.ret)), remap_query.st)

sysparms_query(mod, st) ==
    IF parse_query_err(mod.params.query)
    THEN Raise("ServiceNowError", Msg("Invalid condition '{0}' for column '{1}'.", ""), st)
    ELSE sysparms_query_remapped(remap_params(st, mod.params.query))

\* ------------------------------------- the run() of the three info modules

\* query = {"sysparm_query": sysparms_query(module, table_client, mapper)}
info_query_sysparm(serialized) ==
    IF serialized.exc # "" THEN serialized
    ELSE Ok([sysparm_query |-> serialized.ret], serialized.st)

\* the query run() hands to list_records
info_query(mod, st) ==
    IF Len(mod.params.query) > 0
    THEN info_query_sysparm(sysparms_query(mod, st))
    ELSE Ok(filter_dict(mod.params, {"sys_id", "number"}), st)

RECURSIVE info_loop(_, _, _, _)
RECURSIVE request_info_loop(_, _, _, _)

\* retval.append(dict(mapper.to_ansible(record), attachments=..., variables=..., vars=...))
info_loop_variables(table, rows, retval, attachments, variables) ==
    IF variables.exc # "" THEN variables
    ELSE info_loop(variables.st, table, Tail(rows),
                   Append(retval, Update(to_ansible(rows[1]),
                                         [attachments |-> attachments,
                                          variables |-> variables.ret.variables,
                                          vars |-> variables.ret.vars])))

\* the body of the for loop with the variable_client.list call left out
info_loop_attachments_only(table, rows, retval, attachments) ==
    info_loop(attachments.st, table, Tail(rows),
              Append(retval, Update(to_ansible(rows[1]),
                                    [attachments |-> attachments.ret,
                                     variables |-> << >>, vars |-> << >>])))

\* variables = variable_client.list(record["sys_id"])
info_loop_attachments(table, rows, retval, attachments) ==
    info_loop_variables(table, rows, retval, attachments.ret,
                        variable_list(attachments.st, rows[1].sys_id))

\* `for record in table_client.list_records(table, query)` of
\* request_item_info.run and request_task_info.run
info_loop(st, table, rows, retval) ==
    IF Len(rows) = 0 THEN Ok(retval, st)
    ELSE info_loop_attachments(table, rows, retval,
                               attachment_list_records(st, rows[1].sys_id))

request_info_loop_attachments(table, rows, retval, attachments) ==
    request_info_loop(attachments.st, table, Tail(rows),
                      Append(retval, Update(to_ansible(rows[1]),
                                            [attachments |-> attachments.ret])))

\* the list comprehension of request_info.run
request_info_loop(st, table, rows, retval) ==
    IF Len(rows) = 0 THEN Ok(retval, st)
    ELSE request_info_loop_attachments(table, rows, retval,
                                       attachment_list_records(st, rows[1].sys_id))

info_run_listed(table, with_variables, listed) ==
    IF with_variables THEN info_loop(listed.st, table, listed.ret, << >>)
    ELSE request_info_loop(listed.st, table, listed.ret, << >>)

info_run_query(table, with_variables, query) ==
    IF query.exc # "" THEN query
    ELSE info_run_listed(table, with_variables, list_records(query.st, table, query.ret))

\* def run(module, table_client, attachment_client, variable_client) of request_item_info
request_item_info_run(mod, st) == info_run_query("sc_req_item", TRUE, info_query(mod, st))

\* def run(module, table_client, attachment_client, variable_client) of request_task_info
request_task_info_run(mod, st) == info_run_query("sc_task", TRUE, info_query(mod, st))

\* def run(module, table_client, attachment_client) of request_info
request_info_run(mod, st) == info_run_query("sc_request", FALSE, info_query(mod, st))

\* ------------------------------------------- invocations of request_item

\* The parameters of one request_item invocation.  The identifying
\* parameters name the existing record (id1 / RITM1), a record that does not
\* exist (id9), or nothing.
IdentChoices ==
    { [sys_id |-> None, number |-> None], [sys_id |-> "id1", number |-> None],
      [sys_id |-> "id9", number |-> None], [sys_id |-> None, number |-> "RITM1"] }

\* The plain text and choice fields: none of them set, or one of them.  A
\* priority is given by its label ("high") or by its ServiceNow code ("2").
PlainNone ==
    [priority |-> None, impact |-> None, short_description |-> None,
     description |-> None, other |-> NoneRec]
PlainChoices ==
    { PlainNone,
      [PlainNone EXCEPT !.priority = "high"],
      [PlainNone EXCEPT !.priority = "2"],
      [PlainNone EXCEPT !.short_description = "Install new Cisco"],
      [PlainNone EXCEPT !.other = [description |-> "from other"]] }

StateChoices == {None, "absent", "closed", "Closed Complete", "Open", "assess"}

RequestItemParams ==
    { Update(Update(ident, plain),
             [state |-> s, assignment_group |-> g, urgency |-> u, close_notes |-> c,
              attachments |-> a]) :
        ident \in IdentChoices, plain \in PlainChoices, s \in StateChoices,
        g \in {None, "grp", "nogrp"}, u \in {None, "high"}, c \in {None, "Closed Note"},
        a \in {{}, {"a.txt"}} }

StartState ==
    [calls |-> << >>, rows |-> sc_req_item, attached |-> attached, query_load |-> << >>]

\* The end of an invocation: what the module reported and what it left on
\* the remote.
Finish(name, mod, out, st) ==
    /\ module' = mod
    /\ invoked' = name
    /\ outcome' = out
    /\ calls' = st.calls
    /\ sc_req_item' = st.rows
    /\ attached' = st.attached
    /\ runs' = runs + 1
    /\ pre' = [rows |-> sc_req_item, attached |-> attached]
    /\ query_load' = st.query_load

FinishRequestItem(mod, res) ==
    /\ Finish("request_item", mod, request_item_outcome(mod, res), res.st)
    /\ UNCHANGED sc_item_option_mtom

\* One invocation of the request_item module with AnsibleModule `mod`.
InvokeRequestItem(mod) ==
    FinishRequestItem(mod, IF required_if_ok(mod) THEN request_item_run(mod, StartState)
                           ELSE Ok(None, StartState))

\* A first run of the module with any parameters.
RequestItemMain ==
    /\ runs = 0
    /\ \E p \in RequestItemParams, check_mode \in BOOLEAN :
          InvokeRequestItem([params |-> p, check_mode |-> check_mode])

\* The same task run again against what the first run left on the remote.
RequestItemRerun ==
    /\ invoked = "request_item"
    /\ runs > 0
    /\ runs < MaxRuns
    /\ InvokeRequestItem(module)

\* The record RITM0010001 of the examples, before the module runs.
ExistingRecord(state, assignment_group, close_notes) ==
    [sys_id |-> "id1", number |-> "RITM1", state |-> state,
     assignment_group |-> assignment_group, priority |-> "4", impact |-> "3",
     urgency |-> "3", short_description |-> "", description |-> "",
     close_notes |-> close_notes]

NoModule == [params |-> EmptyDict, check_mode |-> FALSE]

ValidVariables ==
    << [sys_id |-> "m1", request_item |-> "id1", sc_item_option |-> "o1"],
       [sys_id |-> "m2", request_item |-> "id1", sc_item_option |-> "o2"] >>

\* An sc_item_option_mtom row whose answer has the empty order.
EmptyOrderVariables ==
    << [sys_id |-> "m1", request_item |-> "id1", sc_item_option |-> "o4"] >>

Init ==
    /\ \/ /\ sc_req_item \in { << >>,
                               << ExistingRecord("1", "", "") >>,
                               << ExistingRecord("1", "g1", "old notes") >>,
                               << ExistingRecord("3", "g1", "old notes") >> }
          /\ attached \in { ("id1" :> {}), ("id1" :> {"a.txt"}) }
          /\ sc_item_option_mtom = ValidVariables
       \/ /\ sc_req_item = << ExistingRecord("1", "", "") >>
          /\ attached = ("id1" :> {})
          /\ sc_item_option_mtom = EmptyOrderVariables
    /\ module = NoModule
    /\ invoked = "none"
    /\ outcome = NoOutcome
    /\ calls = << >>
    /\ runs = 0
    /\ pre = [rows |-> sc_req_item, attached |-> attached]
    /\ query_load = << >>

Next == RequestItemMain \/ RequestItemRerun

Spec == Init /\ [][Next]_vars

\* ------------------------------------------ invocations of the info modules

\* def main() of an info module: run() inside try / except ServiceNowError
info_outcome(res) ==
    IF res.exc = "" THEN ExitJson(FALSE, NoneRec, [before |-> NoneRec, after |-> NoneRec], res.ret)
    ELSE IF res.exc = "ServiceNowError" THEN FailJson(res.msg)
    ELSE Uncaught(res.exc, res.msg)

FinishInfo(name, mod, res) ==
    /\ Finish(name, mod, info_outcome(res), res.st)
    /\ UNCHANGED sc_item_option_mtom

\* The parameters of an info module: mutually_exclusive keeps query apart
\* from sys_id and number.
InfoQueries ==
    { << << <<"assignment_group", <<"=", "grp">> >>, <<"state", <<"=", "Open">> >> >> >>,
      << << <<"state", <<"!=", "Closed Complete">> >> >> >>,
      << << <<"requested_by", <<"=", "nobody">> >> >> >>,
      << << <<"short_description", <<"~", "SAP">> >> >> >> }

InfoParams ==
    { [sys_id |-> None, number |-> None, query |-> << >>],
      [sys_id |-> "id1", number |-> None, query |-> << >>],
      [sys_id |-> "id9", number |-> None, query |-> << >>],
      [sys_id |-> None, number |-> "RITM2", query |-> << >>] }
    \cup { [sys_id |-> None, number |-> None, query |-> q] : q \in InfoQueries }

RequestItemInfoMain ==
    /\ runs = 0
    /\ \E p \in InfoParams :
          FinishInfo("request_item_info", [params |-> p, check_mode |-> FALSE],
                     request_item_info_run([params |-> p, check_mode |-> FALSE], StartState))

RequestTaskInfoMain ==
    /\ runs = 0
    /\ \E p \in InfoParams :
          FinishInfo("request_task_info", [params |-> p, check_mode |-> FALSE],
                     request_task_info_run([params |-> p, check_mode |-> FALSE], StartState))

RequestInfoMain ==
    /\ runs = 0
    /\ \E p \in InfoParams :
          FinishInfo("request_info", [params |-> p, check_mode |-> FALSE],
                     request_info_run([params |-> p, check_mode |-> FALSE], StartState))

\* The sc_item_option_mtom rows a remote may hold: variables of id1 with
\* every answer of sc_item_option or an answer that does not exist (o9), and
\* a variable of id2.
MtomLinks ==
    { [request_item |-> "id1", sc_item_option |-> o] : o \in {"o1", "o2", "o3", "o4", "o5", "o9"} }
    \cup { [request_item |-> "id2", sc_item_option |-> "o3"] }

MtomTables ==
    UNION { [1..n -> MtomLinks] : n \in 0..MaxVars }

InitInfo ==
    /\ sc_req_item = << ExistingRecord("1", "g1", ""),
                        [ExistingRecord("3", "", "done") EXCEPT !.sys_id = "id2", !.number = "RITM2"] >>
    /\ attached = ("id1" :> {"a.txt"})
    /\ sc_item_option_mtom \in MtomTables
    /\ module = NoModule
    /\ invoked = "none"
    /\ outcome = NoOutcome
    /\ calls = << >>
    /\ runs = 0
    /\ pre = [rows |-> sc_req_item, attached |-> attached]
    /\ query_load = << >>

NextInfo == RequestItemInfoMain \/ RequestTaskInfoMain \/ RequestInfoMain

SpecInfo == InitInfo /\ [][NextInfo]_vars

\* ------------------------------------- query invocations of request_item_info

\* The conditions a query item is made of.
QueryConds ==
    { <<"type", <<"=", "normal">> >>,
      <<"chg_model", <<"=", "standard">> >>,
      <<"hold_reason", <<"LIKE", "vendor">> >>,
      <<"requested_by", <<"=", "some.user">> >>,
      <<"requested_by", <<"=", "nobody">> >>,
      <<"assignment_group", <<"!=", "grp">> >>,
      <<"template", <<"=", "tmpl">> >>,
      <<"std_change_producer_version", <<"=", "t9">> >>,
      <<"short_description", <<"LIKE", "SAP">> >>,
      <<"state", <<"=", "Open">> >> }

\* The items: up to MaxConds conditions on distinct columns, in any order.
QueryItems ==
    UNION { { item \in [1..n -> QueryConds] :
                \A a, b \in 1..n : a # b => item[a][1] # item[b][1] } : n \in 1..MaxConds }

\* The items a query goes on with after its first one.
MoreItems ==
    { << <<"state", <<"=", "Open">> >> >>,
      << <<"assignment_group", <<"=", "grp">> >>, <<"hold_reason", <<"=", "vendor">> >> >>,
      << <<"chg_model", <<"=", "standard">> >>, <<"type", <<"=", "normal">> >> >> }

\* The queries: any item, followed by up to MaxItems - 1 more.
Queries ==
    { <<first>> \o rest :
        first \in QueryItems,
        rest \in UNION { [1..n -> MoreItems] : n \in 0..(MaxItems - 1) } }

RequestItemInfoQuery ==
    /\ runs = 0
    /\ \E q \in Queries :
          FinishInfo("request_item_info",
                     [params |-> [sys_id |-> None, number |-> None, query |-> q],
                      check_mode |-> FALSE],
                     request_item_info_run(
                         [params |-> [sys_id |-> None, number |-> None, query |-> q],
                          check_mode |-> FALSE], StartState))

InitQuery ==
    /\ sc_req_item = << ExistingRecord("1", "g1", ""),
                        [ExistingRecord("3", "", "done") EXCEPT !.sys_id = "id2", !.number = "RITM2"] >>
    /\ attached = ("id1" :> {"a.txt"})
    /\ sc_item_option_mtom = ValidVariables
    /\ module = NoModule
    /\ invoked = "none"
    /\ outcome = NoOutcome
    /\ calls = << >>
    /\ runs = 0
    /\ pre = [rows |-> sc_req_item, attached |-> attached]
    /\ query_load = << >>

NextQuery == RequestItemInfoQuery

SpecQuery == InitQuery /\ [][NextQuery]_vars

\* ------------------------------------------------ claims on request_item

P == module.params

\* The rows of `rows` that the sys_id / number parameters identify.
IdentGiven == DOMAIN filter_dict(P, {"sys_id", "number"}) # {}

Identified(rows) ==
    IF IdentGiven
    THEN SelectSeq(rows, LAMBDA row : \A k \in DOMAIN filter_dict(P, {"sys_id", "number"}) :
                                          row[k] = filter_dict(P, {"sys_id", "number"})[k])
    ELSE << >>

Issued(name) == \E i \in DOMAIN calls : calls[i][1] = name

RanRequestItem == invoked = "request_item" /\ required_if_ok(module)

\* C1: run() with state "absent" and a sys_id or number of an existing
\* sc_req_item record completes normally, deletes the record's attachments
\* and the record, and reports changed=True with diff before=<the record>,
\* after=None; when no record matches it reports changed=False, before=None,
\* after=None and issues no delete call.
C1_AbsentDeletesRecord ==
    (RanRequestItem /\ P.state = "absent") =>
        IF Len(Identified(pre.rows)) = 1
        THEN /\ outcome.kind = "exit_json"
             /\ outcome.changed = TRUE
             /\ outcome.diff.before = to_ansible(Identified(pre.rows)[1])
             /\ outcome.diff.after = NoneRec
             /\ Issued("attachment.delete_attached_records")
             /\ Issued("delete_record")
             /\ ~module.check_mode => /\ Len(Identified(sc_req_item)) = 0
                                      /\ Get(attached, Identified(pre.rows)[1].sys_id, {}) = {}
        ELSE /\ outcome.kind = "exit_json"
             /\ outcome.changed = FALSE
             /\ outcome.diff.before = NoneRec
             /\ outcome.diff.after = NoneRec
             /\ ~Issued("delete_record")

\* C2: every invocation of every module ends through exit_json or through
\* the single failure signal fail_json(msg=...); none ends with an uncaught
\* exception.
C2_FailuresEndInFailJson ==
    invoked # "none" => outcome.kind \in {"exit_json", "fail_json"}

ClosedStates == {"closed", "Closed Complete", "Closed Incomplete", "Closed Skipped"}

\* close_notes is set: in the parameters, or non-empty on the existing record
CloseNotesSet ==
    \/ P.close_notes # None
    \/ \E i \in DOMAIN Identified(pre.rows) : Truthy(Identified(pre.rows)[i].close_notes)

\* C3: ensure_present never issues create_record or update_record that moves
\* a request item to a closed state (state "closed" or one of the labels
\* "Closed Complete", "Closed Incomplete", "Closed Skipped") unless
\* close_notes is set in the parameters or on the existing record; the
\* remote record and attachments stay unchanged.
C3_ClosedNeedsCloseNotes ==
    (RanRequestItem /\ P.state \in ClosedStates /\ ~CloseNotesSet) =>
        /\ ~Issued("create_record")
        /\ ~Issued("update_record")
        /\ sc_req_item = pre.rows
        /\ attached = pre.attached

\* C4: with state "closed" and a non-empty close_notes parameter,
\* validate_params raises no error, so the invocation does not end with
\* "Missing required parameters ...".
C4_ClosedWithNotesIsValid ==
    (RanRequestItem /\ P.state = "closed" /\ Truthy(P.close_notes)) =>
        ~(outcome.kind = "fail_json" /\ outcome.msg[1] = "Missing required parameters {0}")

AssignmentGroupStates == {"assess", "authorize", "scheduled", "implement", "review", "closed"}

AssignmentGroupSet ==
    \/ P.assignment_group # None
    \/ \E i \in DOMAIN Identified(pre.rows) : Truthy(Identified(pre.rows)[i].assignment_group)

\* C5: with state assess, authorize, scheduled, implement, review or closed
\* and no assignment_group (neither a parameter nor on the existing record),
\* ensure_present fails with an error and sends no create_record /
\* update_record.
C5_StateNeedsAssignmentGroup ==
    (RanRequestItem /\ P.state \in AssignmentGroupStates /\ ~AssignmentGroupSet) =>
        /\ outcome.kind = "fail_json"
        /\ ~Issued("create_record")
        /\ ~Issued("update_record")

\* C6: a supplied urgency that differs from the remote record's urgency
\* makes ensure_present report changed=True and send the new urgency (every
\* documented field option takes part in the payload).
C6_UrgencyTakesPartInPayload ==
    (/\ RanRequestItem
     /\ outcome.kind = "exit_json"
     /\ P.state # "absent"
     /\ P.urgency # None
     /\ Len(Identified(pre.rows)) = 1
     /\ to_ansible(Identified(pre.rows)[1]).urgency # P.urgency) =>
        /\ outcome.changed = TRUE
        /\ Issued("update_record")
        /\ ~module.check_mode =>
               to_ansible(Identified(sc_req_item)[1]).urgency = P.urgency

\* --------------------------------------------- claims on the info modules

WithVariables == invoked \in {"request_item_info", "request_task_info"}

Returned == outcome.kind = "exit_json"

\* The sc_item_option_mtom rows of a request item, as list_records lists them.
Listing(sys_id) == SelectSeq(sc_item_option_mtom, LAMBDA row : row.request_item = sys_id)

OptionRow(sys_id) == sc_item_option[CHOOSE i \in DOMAIN sc_item_option : sc_item_option[i].sys_id = sys_id]
QuestionRow(sys_id) == item_option_new[CHOOSE i \in DOMAIN item_option_new : item_option_new[i].sys_id = sys_id]

\* The integer a string of decimal digits denotes.
RECURSIVE Numeric(_)
Numeric(s) == IF Len(s) = 0 THEN 0 ELSE 10 * Numeric(SubSeq(s, 1, Len(s) - 1)) + DigitValue(s[Len(s)])

Orders == {sc_item_option[i].order : i \in DOMAIN sc_item_option}

\* C7: both lists VariableClient.list returns are in non-decreasing order of
\* the integer value of `order` (numeric: "9" precedes "10"), and entries
\* of equal order keep the relative order in which sc_item_option_mtom
\* listed them.
C7_VariablesSortedByOrder ==
    (WithVariables /\ Returned) =>
        \A n \in DOMAIN outcome.records :
            LET r == outcome.records[n]
                L == Listing(r.sys_id)
            IN /\ \A i, j \in DOMAIN r.vars :
                      i < j => Numeric(r.vars[i].order) <= Numeric(r.vars[j].order)
               /\ \A i, j \in DOMAIN r.variables :
                      i < j => Numeric(r.variables[i].value.order) <= Numeric(r.variables[j].value.order)
               /\ \A o \in Orders :
                      LET same == SelectSeq(L, LAMBDA row : OptionRow(row.sc_item_option).order = o)
                          got == SelectSeq(r.vars, LAMBDA e : e.order = o)
                          full == SelectSeq(r.variables, LAMBDA e : e.value.order = o)
                      IN /\ [i \in DOMAIN full |-> full[i].value.sys_id]
                              = [i \in DOMAIN same |-> same[i].sc_item_option]
                         /\ [i \in DOMAIN got |-> got[i].value]
                              = [i \in DOMAIN same |-> OptionRow(same[i].sc_item_option).value]

\* C7's case: a request item listed with order "10" first and two answers of
\* order "9" after it comes back as the two "9" in listing order, then "10".
C7_Witness ==
    /\ WithVariables /\ Returned
    /\ \E n \in DOMAIN outcome.records :
          /\ Len(outcome.records[n].vars) = 3
          /\ Listing(outcome.records[n].sys_id)[1].sc_item_option = "o1"
          /\ Listing(outcome.records[n].sys_id)[2].sc_item_option = "o3"
          /\ Listing(outcome.records[n].sys_id)[3].sc_item_option = "o2"
          /\ outcome.records[n].vars[1].value = "2022-06-08"
          /\ outcome.records[n].vars[3].order = <<"1", "0">>

Count(seq, Test(_)) == Len(SelectSeq(seq, Test))

\* C8: VariableClient.list(sys_id) returns exactly one entry per
\* sc_item_option_mtom row whose request_item is sys_id, each joining the
\* sc_item_option row named by the mtom row with the item_option_new row
\* named by that option; in "vars" order and value come from the
\* sc_item_option row and name, active, type, mandatory, read_only,
\* question_text, description from the item_option_new row.
C8_VariablesJoin ==
    (WithVariables /\ Returned) =>
        \A n \in DOMAIN outcome.records :
            LET r == outcome.records[n]
                L == Listing(r.sys_id)
            IN /\ Len(r.vars) = Len(L)
               /\ Len(r.variables) = Len(L)
               /\ \A o \in {L[i].sc_item_option : i \in DOMAIN L} :
                      Count(r.variables, LAMBDA e : e.value.sys_id = o)
                          = Count(L, LAMBDA row : row.sc_item_option = o)
               /\ \A i \in DOMAIN r.variables :
                      /\ \E k \in DOMAIN L : L[k].sc_item_option = r.variables[i].value.sys_id
                      /\ r.variables[i].value = OptionRow(r.variables[i].value.sys_id)
                      /\ r.variables[i].name = QuestionRow(r.variables[i].value.item_option_new)
               /\ \A i \in DOMAIN r.vars :
                      LET value == r.variables[i].value
                          name == r.variables[i].name
                      IN /\ r.vars[i].order = value.order
                         /\ r.vars[i].value = value.value
                         /\ r.vars[i].name = name.name
                         /\ r.vars[i].active = name.active
                         /\ r.vars[i].type = map_type(name.type)
                         /\ r.vars[i].mandatory = name.mandatory
                         /\ r.vars[i].read_only = name.read_only
                         /\ r.vars[i].question_text = name.question_text
                         /\ r.vars[i].description = name.description

\* C8's case: a request item with two variables is returned while
\* sc_item_option_mtom also holds a row of another request item.
C8_Witness ==
    /\ WithVariables /\ Returned
    /\ \E n \in DOMAIN outcome.records :
          /\ outcome.records[n].sys_id = "id1"
          /\ Len(outcome.records[n].vars) = 2
          /\ outcome.records[n].vars[1].name # outcome.records[n].vars[2].name
    /\ \E i \in DOMAIN sc_item_option_mtom : sc_item_option_mtom[i].request_item = "id2"

LookupColumns == {"requested_by", "assignment_group", "template"}

\* The number of conditions of a query that name a user, group or template.
RECURSIVE Lookups(_)
Lookups(query) ==
    IF Len(query) = 0 THEN 0
    ELSE Count(query[1], LAMBDA c : c[1] \in LookupColumns) + Lookups(Tail(query))

\* The calls the loop over `records` is to issue.
RECURSIVE RecordCalls(_, _)
RecordCalls(records, with_variables) ==
    IF Len(records) = 0 THEN 0
    ELSE (IF with_variables THEN 2 + 2 * Len(Listing(records[1].sys_id)) ELSE 1)
         + RecordCalls(Tail(records), with_variables)

TargetKey(k) ==
    CASE k = "type" -> "chg_model"
      [] k = "hold_reason" -> "on_hold_reason"
      [] k = "template" -> "std_change_producer_version"
      [] OTHER -> k

SysIdWhere(rows, column, v) == rows[CHOOSE i \in DOMAIN rows : rows[i][column] = v].sys_id

\* The condition a condition of the query is to become.
Expected(c) ==
    CASE c[1] = "requested_by" -> <<c[2][1], SysIdWhere(sys_user, "user_name", c[2][2])>>
      [] c[1] = "assignment_group" -> <<c[2][1], SysIdWhere(sys_user_group, "name", c[2][2])>>
      [] c[1] = "template" -> <<c[2][1], SysIdWhere(std_change_producer_version, "name", c[2][2])>>
      [] OTHER -> c[2]

Remapped == invoked = "request_item_info" /\ Len(P.query) > 0 /\ Returned

\* C9, as stated: every condition of every query item is in the remapped
\* item under its ServiceNow key, with its operator, and with the sys_id of
\* the looked-up record (requested_by, assignment_group, template) or its
\* own value (type, hold_reason and every other key).
C9_EveryConditionRemapped ==
    Remapped =>
        /\ Len(query_load) = Len(P.query)
        /\ \A i \in DOMAIN P.query : \A j \in DOMAIN P.query[i] :
              /\ TargetKey(P.query[i][j][1]) \in DictKeys(query_load[i])
              /\ DictGet(query_load[i], TargetKey(P.query[i][j][1])) = Expected(P.query[i][j])

\* C9, amended: the same for every condition that is not followed, in its
\* item, by another condition stored under the same ServiceNow key (of type
\* and chg_model, hold_reason and on_hold_reason, template and
\* std_change_producer_version in one item, the later one is kept); the
\* remapped item has no other keys.
C9_LastConditionPerKeyRemapped ==
    Remapped =>
        /\ Len(query_load) = Len(P.query)
        /\ \A i \in DOMAIN P.query :
              /\ DictKeys(query_load[i]) = {TargetKey(P.query[i][j][1]) : j \in DOMAIN P.query[i]}
              /\ Len(query_load[i]) = Cardinality(DictKeys(query_load[i]))
              /\ \A j \in DOMAIN P.query[i] :
                    (\A l \in DOMAIN P.query[i] :
                        l > j => TargetKey(P.query[i][l][1]) # TargetKey(P.query[i][j][1]))
                    => DictGet(query_load[i], TargetKey(P.query[i][j][1])) = Expected(P.query[i][j])

\* C9's case: an item with a template reference and a requested_by
\* reference is remapped.
C9_Witness ==
    /\ Remapped
    /\ \E i \in DOMAIN P.query :
          /\ P.query[i][1][1] = "template"
          /\ Len(P.query[i]) = 2
          /\ P.query[i][2][1] = "requested_by"
          /\ query_load[i] = << <<"std_change_producer_version", <<"=", "t1">> >>,
                                <<"requested_by", <<"=", "u1">> >> >>

\* ------------------------------------------------------ map_type alone

\* The values map_type is applied to: every code of the table, codes the
\* table does not list, a label, and None.
TypeInputs ==
    {var_type[i][1] : i \in DOMAIN var_type} \cup {"13", "0", "34", "Date", "unknown", None}

\* type=map_type(name['type']) for one more question: the label is appended
\* to the entries built so far.
MapTypeCall ==
    /\ runs < MaxRuns
    /\ \E type_ \in TypeInputs :
          /\ module' = [params |-> [type_ |-> type_], check_mode |-> FALSE]
          /\ outcome' = [outcome EXCEPT !.kind = "return",
                                        !.record = [type |-> map_type(type_)],
                                        !.records = Append(@, [type |-> map_type(type_)])]
    /\ invoked' = "map_type"
    /\ runs' = runs + 1
    /\ UNCHANGED <<sc_req_item, attached, sc_item_option_mtom, calls, pre, query_load>>

InitType ==
    /\ sc_req_item = << >>
    /\ attached = ("id1" :> {})
    /\ sc_item_option_mtom = << >>
    /\ module = NoModule
    /\ invoked = "none"
    /\ outcome = NoOutcome
    /\ calls = << >>
    /\ runs = 0
    /\ pre = [rows |-> sc_req_item, attached |-> attached]
    /\ query_load = << >>

NextType == MapTypeCall

SpecType == InitType /\ [][NextType]_vars

\* C11: map_type is total: for every code listed in var_type it returns that
\* code's label (no code of the table has two labels), for every other
\* input, the unlisted code "13" included, it returns "unknown", and it
\* never returns None.
C11_MapTypeTotal ==
    /\ \A i, j \in DOMAIN var_type : var_type[i][1] = var_type[j][1] => var_type[i][2] = var_type[j][2]
    /\ invoked = "map_type" =>
          /\ outcome.record.type # None
          /\ \A i \in DOMAIN var_type : var_type[i][1] = P.type_ => outcome.record.type = var_type[i][2]
          /\ (\A i \in DOMAIN var_type : var_type[i][1] # P.type_) => outcome.record.type = "unknown"
          /\ P.type_ = "13" => outcome.record.type = "unknown"

\* C11's case: map_type was applied to the unlisted code "13" after it was
\* applied to a listed code.
C11_Witness ==
    /\ invoked = "map_type"
    /\ P.type_ = "13"
    /\ outcome.records = << [type |-> "Date/Time"], [type |-> "unknown"] >>

\* ------------------------------------------------- the default state mapping

\* The default choices of `state` in DOCUMENTATION, without absent.
DocumentedStates ==
    {"new", "assess", "authorize", "scheduled", "implement", "review", "closed", "canceled"}

\* The ServiceNow state codes of the default mapping.
StateCodes == {PAYLOAD_FIELDS_MAPPING.state[i][1] : i \in DOMAIN PAYLOAD_FIELDS_MAPPING.state}

\* C12: with the default mapping, a documented default state label
\* (new, assess, authorize, scheduled, implement, review, closed, canceled)
\* is translated to a ServiceNow state code before it is stored, and a
\* stored state code of the default mapping is translated back to one of
\* these labels in the returned record.
C12_DefaultStatesTranslated ==
    /\ (/\ RanRequestItem
        /\ outcome.kind = "exit_json"
        /\ ~module.check_mode
        /\ ~IdentGiven
        /\ P.state \in DocumentedStates) =>
           sc_req_item[Len(sc_req_item)].state \in StateCodes
    /\ (/\ RanRequestItem
        /\ outcome.kind = "exit_json"
        /\ P.state = None
        /\ Len(Identified(pre.rows)) = 1
        /\ Identified(pre.rows)[1].state \in StateCodes) =>
           outcome.record.state \in DocumentedStates

\* ------------------------------------------------ runs on an existing record

\* ensure_present ran on the one record the sys_id / number parameters
\* identify, and the invocation ended through exit_json.
PresentOnExisting ==
    /\ RanRequestItem
    /\ P.state # "absent"
    /\ Len(Identified(pre.rows)) = 1
    /\ outcome.kind = "exit_json"

\* The record before the run, as the module sees it.
Old == to_ansible(Identified(pre.rows)[1])

\* The payload the parameters ask for: the direct fields over `other`, and
\* the sys_id of the named assignment group.
GroupSysId ==
    sys_user_group[CHOOSE i \in DOMAIN sys_user_group :
                       sys_user_group[i].name = P.assignment_group].sys_id
Payload ==
    IF Truthy(P.assignment_group)
    THEN Update(build_payload_direct(module), [assignment_group |-> GroupSysId])
    ELSE build_payload_direct(module)

\* Every value of the payload survives the translation to ServiceNow and
\* back (it is not itself a ServiceNow code of its field's mapping).
Stable == to_ansible(to_snow(Payload)) = Payload

\* The run left the remote as it was and reported no change.
NothingDone ==
    /\ ~Issued("update_record")
    /\ ~Issued("attachment.update_records")
    /\ ~Issued("create_record")
    /\ outcome.changed = FALSE
    /\ [k \in RecFields |-> outcome.record[k]] = Old
    /\ outcome.record.attachments = Get(pre.attached, Old.sys_id, {})
    /\ outcome.diff = [before |-> outcome.record, after |-> outcome.record]
    /\ sc_req_item = pre.rows
    /\ attached = pre.attached

\* The second run of the same task outside check mode.
SecondRun == PresentOnExisting /\ runs >= 2 /\ ~module.check_mode

\* C13: ensure_present is idempotent on an existing record: when the record
\* already holds every key/value of the payload and no requested attachment
\* differs from the attached ones, it issues no update and returns
\* changed=False with record=old; and a second run with the same parameters
\* reports changed=False.
C13_SecondRunUnchanged ==
    /\ (/\ PresentOnExisting
        /\ is_superset(Old, Payload)
        /\ P.attachments \subseteq Get(pre.attached, Old.sys_id, {})) => NothingDone
    /\ SecondRun => NothingDone

\* C13, amended: the same, where the second run reports changed=False when
\* every payload value survives the translation to ServiceNow and back, that
\* is, when no parameter of a mapped field is given as a ServiceNow code.
C13_StableSecondRunUnchanged ==
    /\ (/\ PresentOnExisting
        /\ is_superset(Old, Payload)
        /\ P.attachments \subseteq Get(pre.attached, Old.sys_id, {})) => NothingDone
    /\ (SecondRun /\ Stable) => NothingDone

\* C13's case: the first run changed the priority of the record from low to
\* high and attached a.txt, and the second run found nothing to do.
C13_Witness ==
    /\ SecondRun
    /\ Stable
    /\ P.priority = "high"
    /\ P.attachments = {"a.txt"}
    /\ Old.priority = "high"
    /\ NothingDone

\* ------------------------------------------- runs that name a missing record

\* ensure_present ran with a sys_id or number.
PresentIdentified == RanRequestItem /\ P.state # "absent" /\ IdentGiven

\* C14: when sys_id or number is given and state is not absent,
\* ensure_present never creates a record; if no sc_req_item record matches,
\* the invocation fails through fail_json and issues no create_record, no
\* update_record and no attachment upload, and the remote is left as it was.
C14_IdentifiedNeverCreates ==
    /\ PresentIdentified =>
          /\ ~Issued("create_record")
          /\ ~Issued("attachment.upload_records")
          /\ Len(sc_req_item) = Len(pre.rows)
    /\ (PresentIdentified /\ Len(Identified(pre.rows)) = 0) =>
          /\ outcome.kind = "fail_json"
          /\ ~Issued("update_record")
          /\ ~Issued("attachment.update_records")
          /\ sc_req_item = pre.rows
          /\ attached = pre.attached

\* C14's case: state Open with the sys_id of no record: the lookup was the
\* only call and the invocation failed with get_record's message.
C14_Witness ==
    /\ PresentIdentified
    /\ P.sys_id = "id9"
    /\ P.state = "Open"
    /\ P.attachments = {"a.txt"}
    /\ calls = << <<"get_record", "sc_req_item">> >>
    /\ outcome.kind = "fail_json"
    /\ outcome.msg[1] = "No {0} records match the {1} query."

====
